---- MODULE Spec2Model ----
(***************************************************************************)
(* Model of src/main.cpp: the pseudo-random generator family               *)
(* (linear, quadratic, Fibonacci, inverse congruential, difference-combine,*)
(* polar) and the histogram summarizer.                                    *)
(*                                                                         *)
(* unsigned long long values are natural numbers held as little-endian     *)
(* sequences of base-256 digits, so that products and sums can be taken    *)
(* modulo 2^64 exactly as the machine does, and also without any bound.    *)
(* double values are exact dyadic rationals (-1)^neg * man * 2^exp with    *)
(* every operation rounded to 53 significant bits, ties to even.           *)
(*                                                                         *)
(* Intermediate results are handed on as operator parameters, and loops    *)
(* carry their locals in one record l, so that each is computed once.      *)
(***************************************************************************)
EXTENDS Integers, Sequences, FiniteSets, TLC

(***************************************************************************)
(* Natural numbers of any size                                             *)
(***************************************************************************)
Base == 2 ^ 8

Limb(s, i) == IF i <= Len(s) THEN s[i] ELSE 0

RECURSIVE NNorm(_)
NNorm(s) ==
    IF s = <<>> THEN s
    ELSE IF s[Len(s)] = 0 THEN NNorm(SubSeq(s, 1, Len(s) - 1))
    ELSE s

RECURSIVE NFromInt(_)
NFromInt(n) == IF n = 0 THEN <<>> ELSE <<n % Base>> \o NFromInt(n \div Base)

RECURSIVE NToInt(_)
NToInt(s) == IF s = <<>> THEN 0 ELSE s[1] + Base * NToInt(Tail(s))

NZero == <<>>
NOne == <<1>>

RECURSIVE NAddFrom(_, _, _, _)
NAddFrom(a, b, i, carry) ==
    IF i > Len(a) /\ i > Len(b)
    THEN (IF carry = 0 THEN <<>> ELSE <<carry>>)
    ELSE LET s == Limb(a, i) + Limb(b, i) + carry
         IN  <<s % Base>> \o NAddFrom(a, b, i + 1, s \div Base)

NAdd(a, b) == NAddFrom(a, b, 1, 0)

\* -1, 0 or 1 as a < b, a = b, a > b (both without leading zero digits)
RECURSIVE NCmpFrom(_, _, _)
NCmpFrom(a, b, i) ==
    IF i = 0 THEN 0
    ELSE IF a[i] < b[i] THEN -1
    ELSE IF a[i] > b[i] THEN 1
    ELSE NCmpFrom(a, b, i - 1)

NCmp(a, b) ==
    IF Len(a) < Len(b) THEN -1
    ELSE IF Len(a) > Len(b) THEN 1
    ELSE NCmpFrom(a, b, Len(a))

NLess(a, b) == NCmp(a, b) < 0
NLeq(a, b) == NCmp(a, b) <= 0

\* a - b for a >= b
RECURSIVE NSubFrom(_, _, _, _)
NSubFrom(a, b, i, borrow) ==
    IF i > Len(a) THEN <<>>
    ELSE LET d == a[i] - Limb(b, i) - borrow
         IN  IF d < 0 THEN <<d + Base>> \o NSubFrom(a, b, i + 1, 1)
             ELSE <<d>> \o NSubFrom(a, b, i + 1, 0)

NSub(a, b) == NNorm(NSubFrom(a, b, 1, 0))

\* a * k + carry for a small k
RECURSIVE NMulSmallFrom(_, _, _, _)
NMulSmallFrom(a, k, i, carry) ==
    IF i > Len(a) THEN NFromInt(carry)
    ELSE LET p == a[i] * k + carry
         IN  <<p % Base>> \o NMulSmallFrom(a, k, i + 1, p \div Base)

NMulSmall(a, k) == IF k = 0 THEN <<>> ELSE NMulSmallFrom(a, k, 1, 0)

NShiftLimbs(a, n) == IF a = <<>> THEN a ELSE [i \in 1..n |-> 0] \o a

RECURSIVE NMulFrom(_, _, _)
NMulFrom(a, b, i) ==
    IF i > Len(b) THEN <<>>
    ELSE NAdd(NShiftLimbs(NMulSmall(a, b[i]), i - 1), NMulFrom(a, b, i + 1))

NMul(a, b) == NMulFrom(a, b, 1)

RECURSIVE SmallBitLen(_)
SmallBitLen(n) == IF n = 0 THEN 0 ELSE 1 + SmallBitLen(n \div 2)

NBitLen(a) == IF a = <<>> THEN 0 ELSE 8 * (Len(a) - 1) + SmallBitLen(a[Len(a)])

NIsOdd(a) == a # <<>> /\ a[1] % 2 = 1

\* a * 2^k
NShl(a, k) == NShiftLimbs(NMulSmall(a, 2 ^ (k % 8)), k \div 8)

NPow2(k) == NShl(NOne, k)

\* floor(a / k) for a small k
RECURSIVE NDivSmallFrom(_, _, _, _)
NDivSmallFrom(a, k, i, rem) ==
    IF i = 0 THEN <<>>
    ELSE NDivSmallFrom(a, k, i - 1, (rem * Base + a[i]) % k) \o <<(rem * Base + a[i]) \div k>>

NDivSmall(a, k) == NNorm(NDivSmallFrom(a, k, Len(a), 0))

\* floor(a / 2^k)
NShr(a, k) ==
    IF k \div 8 >= Len(a) THEN <<>>
    ELSE NDivSmall(SubSeq(a, (k \div 8) + 1, Len(a)), 2 ^ (k % 8))

\* a mod 2^k
NLowBits(a, k) ==
    IF k \div 8 >= Len(a) THEN a
    ELSE NNorm(Append(SubSeq(a, 1, k \div 8), a[(k \div 8) + 1] % (2 ^ (k % 8))))

\* Long division, one base-256 digit of the quotient at a time.  NDigitFrom
\* finds the largest digit d with d * b <= cur, by bisection
RECURSIVE NDigitFrom(_, _, _, _)
NDigitFrom(cur, b, d, step) ==
    IF step = 0 THEN d
    ELSE IF NLeq(NMulSmall(b, d + step), cur)
    THEN NDigitFrom(cur, b, d + step, step \div 2)
    ELSE NDigitFrom(cur, b, d, step \div 2)

\* l.i is the digit of a to bring down next, l.r the remainder so far and
\* l.q the digits of the quotient found so far
NDivModPut(b, l, cur, d) ==
    [i |-> l.i - 1, q |-> <<d>> \o l.q, r |-> NSub(cur, NMulSmall(b, d))]

NDivModStep(b, l, cur) ==
    NDivModPut(b, l, cur, IF NLess(cur, b) THEN 0 ELSE NDigitFrom(cur, b, 0, Base \div 2))

RECURSIVE NDivModFrom(_, _, _)
NDivModFrom(a, b, l) ==
    IF l.i = 0 THEN <<NNorm(l.q), l.r>>
    ELSE NDivModFrom(a, b, NDivModStep(b, l, NNorm(<<a[l.i]>> \o l.r)))

\* a < 2^31: the division is done on machine integers
NSmall(a) == Len(a) <= 3 \/ (Len(a) = 4 /\ a[4] < Base \div 2)

NDivModSmall(x, y) == <<NFromInt(x \div y), NFromInt(x % y)>>

\* <<quotient, remainder>> of a by b, b > 0
NDivMod(a, b) ==
    IF NLess(a, b) THEN <<NZero, a>>
    ELSE IF NSmall(a) THEN NDivModSmall(NToInt(a), NToInt(b))
    ELSE NDivModFrom(a, b, [i |-> Len(a), q |-> <<>>, r |-> NZero])

NDiv(a, b) == NDivMod(a, b)[1]
NMod(a, b) == NDivMod(a, b)[2]

\* The number written with the decimal digits ds, most significant first
RECURSIVE NFromDigitsFrom(_, _, _)
NFromDigitsFrom(ds, i, acc) ==
    IF i > Len(ds) THEN acc
    ELSE NFromDigitsFrom(ds, i + 1, NNorm(NMulSmallFrom(acc, 10, 1, ds[i])))

NFromDigits(ds) == NFromDigitsFrom(ds, 1, NZero)

RECURSIVE NGcd(_, _)
NGcd(a, b) == IF b = NZero THEN a ELSE NGcd(b, NMod(a, b))

(***************************************************************************)
(* unsigned long long: arithmetic modulo 2^64 (src/main.cpp:17)            *)
(***************************************************************************)
U64Bits == 64

U64Wrap(n) == IF Len(n) <= U64Bits \div 8 THEN n ELSE NNorm(SubSeq(n, 1, U64Bits \div 8))

UAdd(a, b) == U64Wrap(NAdd(a, b))
UMul(a, b) == U64Wrap(NMul(a, b))
USub(a, b) == IF NLeq(b, a) THEN NSub(a, b) ELSE NSub(NAdd(a, NPow2(U64Bits)), b)
UDiv(a, b) == NDiv(a, b)
UMod(a, b) == NMod(a, b)

(***************************************************************************)
(* double: (-1)^neg * man * 2^exp, man odd or zero, at most 53 bits.       *)
(* The values met here stay far from the overflow and subnormal ranges.    *)
(***************************************************************************)
DoubleBits == 53

DZero == [neg |-> FALSE, man |-> NZero, exp |-> 0]

RECURSIVE SmallTrailingZeros(_)
SmallTrailingZeros(n) == IF n % 2 = 1 THEN 0 ELSE 1 + SmallTrailingZeros(n \div 2)

RECURSIVE NTrailingZerosFrom(_, _)
NTrailingZerosFrom(a, i) ==
    IF a[i] = 0 THEN 8 + NTrailingZerosFrom(a, i + 1) ELSE SmallTrailingZeros(a[i])

DNormAt(neg, man, exp, tz) == [neg |-> neg, man |-> NShr(man, tz), exp |-> exp + tz]

DNorm(neg, man, exp) ==
    IF man = NZero THEN DZero ELSE DNormAt(neg, man, exp, NTrailingZerosFrom(man, 1))

\* q * 2^exp with q the kept bits and c the dropped bits compared with one
\* half: up when above, or when equal and q is odd (ties to even)
DRoundUp(neg, q, exp, c) ==
    DNorm(neg, IF c > 0 \/ (c = 0 /\ NIsOdd(q)) THEN NAdd(q, NOne) ELSE q, exp)

\* k > 0 low bits of man are dropped
DRoundAt(neg, man, exp, k) ==
    IF k <= 0 THEN DNorm(neg, man, exp)
    ELSE DRoundUp(neg, NShr(man, k), exp + k, NCmp(NLowBits(man, k), NPow2(k - 1)))

\* man * 2^exp rounded to the nearest double, ties to even
DRound(neg, man, exp) == DRoundAt(neg, man, exp, NBitLen(man) - DoubleBits)

DFromU64(u) == DRound(FALSE, u, 0)
DFromInt(n) == DNorm(n < 0, NFromInt(IF n < 0 THEN -n ELSE n), 0)
DOne == [neg |-> FALSE, man |-> NOne, exp |-> 0]

DNeg(a) == IF a.man = NZero THEN a ELSE [a EXCEPT !.neg = ~a.neg]

\* (-1)^na * A * 2^e + (-1)^nb * B * 2^e
DAddAligned(na, A, nb, B, e) ==
    IF na = nb THEN DRound(na, NAdd(A, B), e)
    ELSE IF NLeq(B, A) THEN DRound(na, NSub(A, B), e)
    ELSE DRound(nb, NSub(B, A), e)

DAddAt(a, b, e) == DAddAligned(a.neg, NShl(a.man, a.exp - e), b.neg, NShl(b.man, b.exp - e), e)

DAdd(a, b) == DAddAt(a, b, IF a.exp < b.exp THEN a.exp ELSE b.exp)

DSub(a, b) == DAdd(a, DNeg(b))

DMul(a, b) == DRound(a.neg # b.neg, NMul(a.man, b.man), a.exp + b.exp)

\* a / b for b # 0: the quotient carried to at least 55 bits, plus a sticky
\* bit that is 1 when the division left a remainder
DDivSticky(neg, qr, exp) ==
    DRound(neg, NNorm(NMulSmallFrom(qr[1], 2, 1, IF qr[2] = NZero THEN 0 ELSE 1)), exp)

DDivAt(a, b, s) == DDivSticky(a.neg # b.neg, NDivMod(NShl(a.man, s), b.man), a.exp - b.exp - s - 1)

DDivShift(need) == IF need > 0 THEN need ELSE 0

DDiv(a, b) ==
    IF a.man = NZero THEN DZero
    ELSE DDivAt(a, b, DDivShift(DoubleBits + 2 + NBitLen(b.man) - NBitLen(a.man)))

DLess(a, b) == DSub(a, b).neg
DLeq(a, b) == ~DLess(b, a)

\* static_cast<int>: truncation toward zero
DToIntOf(neg, mag) == IF neg THEN -NToInt(mag) ELSE NToInt(mag)

DToInt(a) == DToIntOf(a.neg, IF a.exp >= 0 THEN NShl(a.man, a.exp) ELSE NShr(a.man, -a.exp))

(***************************************************************************)
(* The generators (src/main.cpp:15-148)                                    *)
(***************************************************************************)
NoValue == [nan |-> TRUE]

Returned(g, r) == [gen |-> g, ret |-> r, status |-> "returned"]
Trapped(g) == [gen |-> g, ret |-> NoValue, status |-> "trap"]

\* static_cast<double>(x) / m
Quotient(x, m) == DDiv(DFromU64(x), DFromU64(m))

LinearCongruentialGenerator(m, a, c, seed) ==
    [kind |-> "linear", m |-> m, a |-> a, c |-> c, x |-> seed]

\* LinearCongruentialGenerator::getNext: line 23 computes x, line 24 returns
LinearReturn(g, x) == Returned([g EXCEPT !.x = x], Quotient(x, g.m))

LinearGetNext(g) == LinearReturn(g, UMod(UAdd(UMul(g.a, g.x), g.c), g.m))

QuadraticCongruentialGenerator(m, a, c, d, seed) ==
    [kind |-> "quadratic", m |-> m, a |-> a, c |-> c, d |-> d, x |-> seed]

\* QuadraticCongruentialGenerator::getNext: line 39 computes x, line 40 returns
QuadraticReturn(g, x) == Returned([g EXCEPT !.x = x], Quotient(x, g.m))

QuadraticGetNext(g) ==
    QuadraticReturn(g, UMod(UAdd(UAdd(UMul(UMul(g.d, g.x), g.x), UMul(g.a, g.x)), g.c), g.m))

\* FibonacciGenerator constructor and getNext
FibonacciGenerator(m, seed) ==
    [kind |-> "fibonacci", m |-> m, x1 |-> IF seed # NZero THEN seed ELSE NZero, x2 |-> NOne]

FibonacciReturn(g, nextValue) ==
    Returned([g EXCEPT !.x1 = g.x2, !.x2 = nextValue], Quotient(nextValue, g.m))

FibonacciGetNext(g) == FibonacciReturn(g, UMod(UAdd(g.x1, g.x2), g.m))

InverseCongruentialGenerator(p, a, c, seed) ==
    [kind |-> "inverse", p |-> p, a |-> a, c |-> c, x |-> seed]

\* InverseCongruentialGenerator::modInverse, the loop of lines 79-87, with the
\* locals a, m, x0, x1 in l.  The result is the set of outcomes: a / m with
\* m = 0 is undefined, and a build either traps there or (where the divide
\* instruction yields 0 and the remainder is taken as a - q * m) goes on with
\* q = 0 and a % m = a.
ModInverseStep(l, q) ==
    [a |-> l.m, m |-> UMod(l.a, l.m), x0 |-> USub(l.x1, UMul(q, l.x0)), x1 |-> l.x0]

RECURSIVE ModInverseLoop(_)
ModInverseLoop(l) ==
    IF ~NLess(NOne, l.a) THEN {[trap |-> FALSE, val |-> l.x1]}
    ELSE IF l.m = NZero
    THEN {[trap |-> TRUE, val |-> NZero]}
         \cup ModInverseLoop([a |-> l.m, m |-> l.a, x0 |-> l.x1, x1 |-> l.x0])
    ELSE ModInverseLoop(ModInverseStep(l, UDiv(l.a, l.m)))

\* lines 89-93: x1 is unsigned, so x1 < 0 compares two naturals
ModInverseFix(o, m0) ==
    IF o.trap THEN o
    ELSE [trap |-> FALSE, val |-> IF NLess(o.val, NZero) THEN UAdd(o.val, m0) ELSE o.val]

\* lines 75-77 set m0, x0 and x1
ModInverse(a, m) ==
    {ModInverseFix(o, m) : o \in ModInverseLoop([a |-> a, m |-> m, x0 |-> NZero, x1 |-> NOne])}

\* InverseCongruentialGenerator::getNext: line 102 computes x, line 104 returns
InverseReturn(g, x) == Returned([g EXCEPT !.x = x], Quotient(x, g.p))

\* every outcome of getNext, with the inverse it used
InverseGetNext(g) ==
    {IF o.trap THEN [out |-> Trapped(g), inv |-> NZero]
     ELSE [out |-> InverseReturn(g, UMod(UAdd(UMul(g.a, o.val), g.c), g.p)), inv |-> o.val] :
        o \in ModInverse(g.x, g.p)}

(***************************************************************************)
(* std::rand() and ThreeSigmaGenerator (src/main.cpp:128-148)              *)
(***************************************************************************)
\* RAND_MAX of <cstdlib>
RandMax == 2147483647

\* results of std::rand() the model draws from: 0, 1, a mid-range value and
\* RAND_MAX
RandValues == {0, 1, 500000000, RandMax}

ThreeSigmaDraws == 12
ThreeSigmaDivisor == 2147483647
ThreeSigmaCentre == 6

ThreeSigmaGenerator(mean, stddev) == [kind |-> "threesigma", m |-> mean, s |-> stddev]

\* what the twelve calls of std::rand() in one getNext may return: k times
\* RAND_MAX and then 0, or twelve times the same value
ThreeSigmaRands ==
    {[i \in 1..ThreeSigmaDraws |-> IF i <= k THEN RandMax ELSE 0] : k \in 5..7}
    \cup {[i \in 1..ThreeSigmaDraws |-> r] : r \in RandValues}

\* the loop of lines 140-142, with i and sum in l
RECURSIVE ThreeSigmaLoop(_, _)
ThreeSigmaLoop(rs, l) ==
    IF l.i > ThreeSigmaDraws THEN l.sum
    ELSE ThreeSigmaLoop(rs,
            [i |-> l.i + 1,
             sum |-> DAdd(l.sum, DDiv(DFromInt(rs[l.i]), DFromInt(ThreeSigmaDivisor)))])

\* sum after the loop, for each rs (merging with the empty function stores
\* the table's values)
ThreeSigmaSums == [rs \in ThreeSigmaRands |-> ThreeSigmaLoop(rs, [i |-> 1, sum |-> DZero])] @@ <<>>

\* ThreeSigmaGenerator::getNext, lines 144-146, with std::rand() returning rs
ThreeSigmaGetNext(g, rs) ==
    Returned(g, DAdd(g.m, DMul(DSub(ThreeSigmaSums[rs], DFromInt(ThreeSigmaCentre)), g.s)))

\* virtual dispatch of Generator::getNext: the set of outcomes of one call
GetNext(g) ==
    CASE g.kind = "linear" -> {LinearGetNext(g)}
      [] g.kind = "quadratic" -> {QuadraticGetNext(g)}
      [] g.kind = "fibonacci" -> {FibonacciGetNext(g)}
      [] g.kind = "inverse" -> {o.out : o \in InverseGetNext(g)}
      [] g.kind = "threesigma" -> {ThreeSigmaGetNext(g, rs) : rs \in ThreeSigmaRands}

\* the wrap left out: a negative difference is returned as it is
CombineWrapOmitted(difference) == difference

\* CombineMethodgenerator::getNext, lines 119-122: the wrap of the difference
CombineWrap(difference) ==
    IF DLess(difference, DZero) THEN DAdd(difference, DOne) ELSE difference

\* lines 118-122
CombineDifference(x, y) == CombineWrap(DSub(x, y))

\* line 117 on: Y->getNext() on the objects g1 that X->getNext() left
CombineSecond(g1, py, x) ==
    {IF oy.status = "trap"
     THEN [gens |-> g1, ret |-> NoValue, status |-> "trap", inner |-> <<x, oy.ret>>]
     ELSE [gens |-> [g1 EXCEPT ![py] = oy.gen], ret |-> CombineDifference(x, oy.ret),
           status |-> "returned", inner |-> <<x, oy.ret>>] :
        oy \in GetNext(g1[py])}

\* CombineMethodgenerator::getNext on the objects gs with X = px and Y = py:
\* X->getNext() runs first and its effect on the object is seen by Y->getNext()
CombineGetNext(gs, px, py) ==
    UNION {IF ox.status = "trap"
           THEN {[gens |-> gs, ret |-> NoValue, status |-> "trap", inner |-> <<ox.ret>>]}
           ELSE CombineSecond([gs EXCEPT ![px] = ox.gen], py, ox.ret) :
        ox \in GetNext(gs[px])}

(***************************************************************************)
(* PolarCoordinateGenerator (src/main.cpp:152-175)                         *)
(***************************************************************************)
PolarDivisor == 2147483647

\* A value of the member `last` or a result: either a plain double, or
\* v * sqrt((-2 * log(s)) / s), kept as the pair (v, s) it is computed from
PlainValue(d) == [kind |-> "double", d |-> d]
TransformValue(v, s) == [kind |-> "transform", v |-> v, s |-> s]

PolarInitialLast == PlainValue([neg |-> TRUE, man |-> NOne, exp |-> 0])

\* val > 0.  For s = 0, log(s) is -infinity and the factor +infinity, and
\* 0 * infinity is NaN, for which every comparison is false; for 0 < s < 1
\* the factor is positive and finite, so the product has the sign of v
IsPositive(val) ==
    IF val.kind = "double" THEN ~val.d.neg /\ val.d.man # NZero
    ELSE ~val.v.neg /\ val.v.man # NZero

\* 2.0 * static_cast<double>(std::rand()) / 2147483647
PolarUniform(r) == DDiv(DMul(DFromInt(2), DFromInt(r)), DFromInt(PolarDivisor))

\* one pass of the body of the do-while loop, lines 163-165, and its test
PolarTest(v1, v2, s) == [v1 |-> v1, v2 |-> v2, s |-> s, again |-> DLeq(DOne, s)]

PolarSum(v1, v2) == PolarTest(v1, v2, DAdd(DMul(v1, v1), DMul(v2, v2)))

PolarPair(r1, r2) == PolarSum(PolarUniform(r1), PolarUniform(r2))

\* PolarPairs holds PolarPair for each pair of results of std::rand()
\* (merging with the empty function stores the table's values, which would
\* otherwise be computed again at every lookup)
PolarPairs == [p \in RandValues \X RandValues |-> PolarPair(p[1], p[2])] @@ <<>>

\* the do-while loop of lines 162-166 fed with the rand() results rs from
\* position i on: the accepted pair, or done = FALSE when rs runs out first
RECURSIVE PolarLoop(_, _)

PolarLoopTest(rs, i, b) ==
    IF b.again THEN PolarLoop(rs, i + 2)
    ELSE [done |-> TRUE, used |-> i + 1, v1 |-> b.v1, v2 |-> b.v2, s |-> b.s]

PolarLoop(rs, i) ==
    IF i + 1 > Len(rs) THEN [done |-> FALSE]
    ELSE PolarLoopTest(rs, i, PolarPairs[<<rs[i], rs[i + 1]>>])

\* lines 168-171 for the accepted pair l
PolarGenerate(l) ==
    IF ~l.done THEN [done |-> FALSE]
    ELSE [done |-> TRUE, used |-> l.used,
          ret |-> TransformValue(l.v1, l.s),
          last |-> TransformValue(l.v2, l.s),
          branch |-> "generated", s |-> l.s]

\* PolarCoordinateGenerator::getNext with `last` as given, consuming the
\* rand() results rs
PolarGetNext(last, rs) ==
    IF IsPositive(last)
    THEN [done |-> TRUE, used |-> 0, ret |-> last, last |-> PolarInitialLast,
          branch |-> "cached", s |-> DZero]
    ELSE PolarGenerate(PolarLoop(rs, 1))

(***************************************************************************)
(* histogram (src/main.cpp:178-198)                                        *)
(***************************************************************************)
\* frequencyIntervals[interval]++, line 186.  l.freq is frequencyIntervals
\* (position interval + 1 holds element interval), l.index the interval
\* computed for each sample (-1 for a sample the if skips), l.oob the
\* positions past the vector that the increment touched.  An increment past
\* the end of the vector is undefined: where the build checks the access
\* (l.checked) the process dies at it (l.dead), otherwise the write lands
\* outside the vector and the loop goes on with the elements as they are
HistogramCount(l, interval) ==
    IF interval < Len(l.freq)
    THEN [l EXCEPT !.i = @ + 1, !.freq[interval + 1] = @ + 1,
                   !.index = Append(@, interval)]
    ELSE [l EXCEPT !.i = @ + 1, !.index = Append(@, interval),
                   !.oob = Append(@, interval), !.dead = l.checked]

HistogramSkip(l) == [l EXCEPT !.i = @ + 1, !.index = Append(@, -1)]

\* the body of the loop of lines 183-188 for one sample
HistogramSample(randomValue, minRange, maxRange, intervalSize, l) ==
    IF DLeq(minRange, randomValue) /\ DLeq(randomValue, maxRange)
    THEN HistogramCount(l, DToInt(DDiv(DSub(randomValue, minRange), intervalSize)))
    ELSE HistogramSkip(l)

RECURSIVE HistogramLoop(_, _, _, _, _)
HistogramLoop(randomValues, minRange, maxRange, intervalSize, l) ==
    IF l.dead \/ l.i > Len(randomValues) THEN l
    ELSE HistogramLoop(randomValues, minRange, maxRange, intervalSize,
            HistogramSample(randomValues[l.i], minRange, maxRange, intervalSize, l))

\* the locals before the loop, line 179
HistogramLocals(numIntervals, checked) ==
    [i |-> 1, freq |-> [b \in 1..numIntervals |-> 0], index |-> <<>>, oob |-> <<>>,
     checked |-> checked, dead |-> FALSE]

\* lines 191-197: one reported row per interval
HistogramRow(minRange, intervalSize, i, count, size) ==
    [start |-> DAdd(minRange, DMul(DFromInt(i), intervalSize)),
     end |-> DAdd(minRange, DMul(DFromInt(i + 1), intervalSize)),
     frequency |-> IF size = 0 THEN NoValue ELSE DDiv(DFromInt(count), DFromInt(size))]

\* After writes past the vector that went through, every row is reported
\* and the call then returns, or the process dies on leaving the function
\* (the heap next to the vector was overwritten)
HistogramOutcomes(done) ==
    IF done.oob = <<>> THEN {done} ELSE {done, [done EXCEPT !.pc = "trap"]}

HistogramReport(randomValues, minRange, maxRange, numIntervals, intervalSize, l) ==
    HistogramOutcomes(
        [pc |-> "done", randomValues |-> randomValues, minRange |-> minRange,
         maxRange |-> maxRange, numIntervals |-> numIntervals,
         frequencyIntervals |-> l.freq, index |-> l.index, oob |-> l.oob,
         rows |-> [b \in 1..numIntervals |->
                     HistogramRow(minRange, intervalSize, b - 1, l.freq[b], Len(randomValues))]])

\* the process died at the increment of line 186: the samples after it were
\* not processed and nothing was reported
HistogramDied(randomValues, minRange, maxRange, numIntervals, l) ==
    IF l.dead
    THEN {[pc |-> "trap", randomValues |-> randomValues, minRange |-> minRange,
           maxRange |-> maxRange, numIntervals |-> numIntervals,
           frequencyIntervals |-> l.freq, index |-> l.index, oob |-> l.oob,
           rows |-> <<>>]}
    ELSE {}

HistogramWith(randomValues, minRange, maxRange, numIntervals, intervalSize) ==
    HistogramReport(randomValues, minRange, maxRange, numIntervals, intervalSize,
        HistogramLoop(randomValues, minRange, maxRange, intervalSize,
            HistogramLocals(numIntervals, FALSE)))
    \cup HistogramDied(randomValues, minRange, maxRange, numIntervals,
            HistogramLoop(randomValues, minRange, maxRange, intervalSize,
                HistogramLocals(numIntervals, TRUE)))

\* histogram: the outcomes of one call
Histogram(randomValues, minRange, maxRange, numIntervals) ==
    HistogramWith(randomValues, minRange, maxRange, numIntervals,
        DDiv(DSub(maxRange, minRange), DFromInt(numIntervals)))

(***************************************************************************)
(* State                                                                   *)
(***************************************************************************)
VARIABLES
    gens,      \* the generator objects, by position (main's vector)
    X, Y,      \* CombineMethodgenerator's two pointers, as positions in gens
    ret,       \* the double the last getNext returned
    status,    \* "ready", "returned", or "trap" (the process died in the call)
    ncalls,    \* getNext calls made so far
    pre,       \* gens as they were when the last call began
    inv,       \* inv_x of the last InverseCongruentialGenerator::getNext
    inner,     \* the doubles x and y of the last CombineMethodgenerator::getNext
    polar,     \* PolarCoordinateGenerator and the position of its caller
    hist       \* the locals of histogram and its position

vars == <<gens, X, Y, ret, status, ncalls, pre, inv, inner, polar, hist>>

MaxCalls == 10

(***************************************************************************)
(* Parameters the generators are constructed with                          *)
(***************************************************************************)
MainModulus == 2147483647
LinearA == 16807
QuadraticA == 40014
QuadraticD == 53668
InverseA == 16805
InverseC == 10

\* a value time(nullptr) returns, and seeds that exercise the recurrences
TimeSeed == NFromInt(1790000000)
M31 == NFromInt(MainModulus)
U64Max == NSub(NPow2(U64Bits), NOne)
\* 2^64 - 59, the largest prime below 2^64
BigPrime == NSub(NPow2(U64Bits), NFromInt(59))
KnuthA == NFromDigits(<<6,3,6,4,1,3,6,2,2,3,8,4,6,7,9,3,0,0,5>>)
KnuthC == NFromDigits(<<1,4,4,2,6,9,5,0,4,0,8,8,8,9,6,3,4,0,7>>)

LinearConfigs ==
    {LinearCongruentialGenerator(M31, NFromInt(LinearA), NZero, seed) :
        seed \in {NOne, TimeSeed}}
    \cup {LinearCongruentialGenerator(BigPrime, KnuthA, KnuthC, NOne),
          LinearCongruentialGenerator(U64Max, NOne, NSub(U64Max, NOne), NZero),
          LinearCongruentialGenerator(NOne, NFromInt(3), NFromInt(5), NFromInt(7))}

QuadraticConfigs ==
    {QuadraticCongruentialGenerator(M31, NFromInt(QuadraticA), NZero, NFromInt(QuadraticD), seed) :
        seed \in {NOne, NPow2(25), TimeSeed}}

FibonacciConfigs ==
    {FibonacciGenerator(M31, seed) : seed \in {NZero, TimeSeed}}
    \cup {FibonacciGenerator(NFromInt(10), NFromInt(7)),
          FibonacciGenerator(U64Max, U64Max)}

InverseConfigs ==
    {InverseCongruentialGenerator(M31, NFromInt(InverseA), NFromInt(InverseC), seed) :
        seed \in {NOne, NZero}}
    \cup {InverseCongruentialGenerator(NFromInt(5), NFromInt(2), NOne, NFromInt(2)),
          InverseCongruentialGenerator(NFromInt(4), NOne, NOne, NFromInt(2)),
          InverseCongruentialGenerator(NFromInt(9), NFromInt(2), NOne, NFromInt(6))}

PrimitiveConfigs == LinearConfigs \cup QuadraticConfigs \cup FibonacciConfigs \cup InverseConfigs

\* the sequences of length n over S
RECURSIVE SeqsOfLen(_, _)
SeqsOfLen(S, n) ==
    IF n = 0 THEN {<<>>} ELSE {Append(t, v) : t \in SeqsOfLen(S, n - 1), v \in S}

NoPolar == [pc |-> "none"]
NoHist == [pc |-> "none"]

(***************************************************************************)
(* Spec: one primitive generator, called repeatedly (main, lines 233-236)  *)
(***************************************************************************)
Init ==
    /\ gens \in {<<g>> : g \in PrimitiveConfigs}
    /\ X = 0 /\ Y = 0
    /\ ret = NoValue
    /\ status = "ready"
    /\ ncalls = 0
    /\ pre = gens
    /\ inv = NZero
    /\ inner = <<>>
    /\ polar = NoPolar
    /\ hist = NoHist

CanCall == status # "trap" /\ ncalls < MaxCalls

Deliver(o, i) ==
    /\ gens' = [gens EXCEPT ![i] = o.gen]
    /\ ret' = o.ret
    /\ status' = o.status
    /\ ncalls' = ncalls + 1
    /\ pre' = gens

LinearCall ==
    /\ CanCall /\ gens[1].kind = "linear"
    /\ Deliver(LinearGetNext(gens[1]), 1)
    /\ UNCHANGED <<X, Y, inv, inner, polar, hist>>

QuadraticCall ==
    /\ CanCall /\ gens[1].kind = "quadratic"
    /\ Deliver(QuadraticGetNext(gens[1]), 1)
    /\ UNCHANGED <<X, Y, inv, inner, polar, hist>>

FibonacciCall ==
    /\ CanCall /\ gens[1].kind = "fibonacci"
    /\ Deliver(FibonacciGetNext(gens[1]), 1)
    /\ UNCHANGED <<X, Y, inv, inner, polar, hist>>

InverseCall ==
    /\ CanCall /\ gens[1].kind = "inverse"
    /\ \E o \in InverseGetNext(gens[1]) :
          /\ Deliver(o.out, 1)
          /\ inv' = o.inv
    /\ UNCHANGED <<X, Y, inner, polar, hist>>

Next == LinearCall \/ QuadraticCall \/ FibonacciCall \/ InverseCall

Spec == Init /\ [][Next]_vars

(***************************************************************************)
(* Claims about the primitive generators                                   *)
(***************************************************************************)
Called == ncalls > 0

\* the modulus and, after a call, the integer k the call derived its result from
Modulus(g) == IF g.kind = "inverse" THEN g.p ELSE g.m
Current(g) == IF g.kind = "fibonacci" THEN g.x2 ELSE g.x

\* the recurrences evaluated in unbounded integers
ExactLinear(g) == NMod(NAdd(NMul(g.a, g.x), g.c), g.m)
ExactQuadratic(g) ==
    NMod(NAdd(NAdd(NMul(NMul(g.d, g.x), g.x), NMul(g.a, g.x)), g.c), g.m)
ExactInverseStep(g, y) == NMod(NAdd(NMul(g.a, y), g.c), g.p)

IsPrime(n) ==
    /\ NSmall(n)
    /\ LET k == NToInt(n)
       IN  k > 1 /\ \A d \in 2..46340 : d <= k \div d => k % d # 0

Coprime(a, b) == NGcd(a, b) = NOne

\* C1: every getNext of the linear, quadratic, Fibonacci and inverse
\* generators returns k/m for an integer k with 0 <= k < m, so a value in [0,1)
ClaimC1_OutputInUnitInterval ==
    Called =>
        /\ status = "returned"
        /\ NLess(Current(gens[1]), Modulus(gens[1]))
        /\ ret = DDiv(DFromU64(Current(gens[1])), DFromU64(Modulus(gens[1])))
        /\ ~ret.neg /\ DLess(ret, DOne)

\* C2: getNext of the linear (quadratic) generator leaves the state equal to
\* (a*x + c) mod m ((d*x^2 + a*x + c) mod m) evaluated in unbounded integers
ClaimC2_NoWraparound ==
    (Called /\ gens[1].kind \in {"linear", "quadratic"}) =>
        /\ status = "returned"
        /\ gens[1].kind = "linear" => gens[1].x = ExactLinear(pre[1])
        /\ gens[1].kind = "quadratic" => gens[1].x = ExactQuadratic(pre[1])

\* C3: getNext of the inverse generator on a state not coprime with the modulus
\* yields a defined error: no numeric sample, no division by zero, state kept
ClaimC3_DefinedErrorWhenNotCoprime ==
    (Called /\ gens[1].kind = "inverse" /\ ~Coprime(pre[1].x, pre[1].p)) =>
        /\ status # "returned"
        /\ status # "trap"
        /\ gens[1].x = pre[1].x

\* C9: for a prime modulus p and 1 <= x < p, modInverse returns y with
\* 0 <= y < p and (x*y) mod p = 1, and getNext leaves the state (a*y + c) mod p
ClaimC9_TrueInverse ==
    (/\ Called /\ gens[1].kind = "inverse"
     /\ IsPrime(pre[1].p)
     /\ NLeq(NOne, pre[1].x) /\ NLess(pre[1].x, pre[1].p)) =>
        /\ status = "returned"
        /\ NLess(inv, pre[1].p)
        /\ NMod(NMul(pre[1].x, inv), pre[1].p) = NOne
        /\ gens[1].x = ExactInverseStep(pre[1], inv)

(***************************************************************************)
(* SpecCombine: a CombineMethodgenerator over two generator objects, which *)
(* main also calls directly (lines 210, 220-236)                           *)
(***************************************************************************)
MaxCombineCalls == 4

\* a = 1, c = 0: the state, and so the output seed / 2^60, never changes
ConstantGenerator(seed) == LinearCongruentialGenerator(NPow2(60), NOne, NZero, seed)

CombinePairs ==
    { <<LinearCongruentialGenerator(M31, NFromInt(LinearA), NZero, TimeSeed),
        QuadraticCongruentialGenerator(M31, NFromInt(QuadraticA), NZero,
                                       NFromInt(QuadraticD), TimeSeed)>>,
      <<LinearCongruentialGenerator(M31, NFromInt(LinearA), NZero, NOne),
        FibonacciGenerator(M31, NZero)>>,
      <<ConstantGenerator(NZero), ConstantGenerator(NOne)>>,
      <<LinearCongruentialGenerator(M31, NOne, NZero, NFromInt(5)),
        LinearCongruentialGenerator(NFromInt(10), NFromInt(3), NOne, NFromInt(7))>>,
      <<LinearCongruentialGenerator(U64Max, NOne, NSub(U64Max, NOne), NOne),
        InverseCongruentialGenerator(NFromInt(4), NOne, NOne, NFromInt(2))>>,
      <<ThreeSigmaGenerator(DFromInt(0), DFromInt(1)),
        InverseCongruentialGenerator(M31, NFromInt(InverseA), NFromInt(InverseC), NOne)>> }

InitCombine ==
    /\ gens \in CombinePairs
    /\ X \in 1..2 /\ Y \in 1..2
    /\ ret = NoValue
    /\ status = "ready"
    /\ ncalls = 0
    /\ pre = gens
    /\ inv = NZero
    /\ inner = <<>>
    /\ polar = NoPolar
    /\ hist = NoHist

CanCallCombine == status # "trap" /\ ncalls < MaxCombineCalls

CombineCall ==
    /\ CanCallCombine
    /\ \E o \in CombineGetNext(gens, X, Y) :
          /\ gens' = o.gens
          /\ ret' = o.ret
          /\ status' = o.status
          /\ inner' = o.inner
    /\ ncalls' = ncalls + 1
    /\ pre' = gens
    /\ UNCHANGED <<X, Y, inv, polar, hist>>

UnderlyingCall ==
    /\ CanCallCombine
    /\ \E i \in 1..2 : \E o \in GetNext(gens[i]) : Deliver(o, i)
    /\ inner' = <<>>
    /\ UNCHANGED <<X, Y, inv, polar, hist>>

NextCombine == CombineCall \/ UnderlyingCall

SpecCombine == InitCombine /\ [][NextCombine]_vars

CombineCalled == Called /\ inner # <<>>

CombineReturned == CombineCalled /\ status = "returned"

InUnitInterval(d) == ~d.neg /\ DLess(d, DOne)

\* C4: for X and Y whose outputs lie in [0,1), every getNext of the composite
\* returns a value d with 0 <= d < 1
ClaimC4_CombineInUnitInterval ==
    (CombineReturned /\ InUnitInterval(inner[1]) /\ InUnitInterval(inner[2])) =>
        InUnitInterval(ret)

\* C5 as stated: with X and Y the same instance, every getNext of the
\* composite returns 0
ClaimC5_AliasedAlwaysZero ==
    (CombineReturned /\ X = Y) => ret = DZero

\* C5 as amended: with X and Y the same instance, a getNext of the composite
\* calls getNext on that instance twice in succession.  When both calls
\* return outputs x and y, it returns x - y, plus 1.0 when x - y is negative
\* (double arithmetic), which is 0 only when x - y is 0 or -1; when one of
\* the two calls does not return, neither does the composite's
AliasedCombineDrawsTwice ==
    (CombineCalled /\ X = Y) =>
        \E o1 \in GetNext(pre[X]) :
            \/ /\ o1.status = "trap"
               /\ status = "trap"
               /\ gens = pre
            \/ /\ o1.status = "returned"
               /\ \E o2 \in GetNext(o1.gen) :
                     \/ /\ o2.status = "trap"
                        /\ status = "trap"
                        /\ gens[X] = o1.gen
                     \/ /\ o2.status = "returned"
                        /\ status = "returned"
                        /\ gens[X] = o2.gen
                        /\ inner = <<o1.ret, o2.ret>>
                        /\ ~DSub(o1.ret, o2.ret).neg => ret = DSub(o1.ret, o2.ret)
                        /\ DSub(o1.ret, o2.ret).neg =>
                              ret = DAdd(DSub(o1.ret, o2.ret), DOne)
                        /\ (ret = DZero) <=>
                              DSub(o1.ret, o2.ret) \in {DZero, DNeg(DOne)}

WitnessC5_AliasedNonZero ==
    CombineReturned /\ X = Y /\ ret # DZero /\ inner[1] # inner[2]

(***************************************************************************)
(* SpecPolar: a PolarCoordinateGenerator called repeatedly, std::rand()    *)
(* returning any of RandValues                                             *)
(***************************************************************************)
MaxPolarCalls == 4
MaxRejections == 1

\* what one call may consume: up to MaxRejections rejected pairs and one more
RandSequences == UNION {SeqsOfLen(RandValues, 2 * k) : k \in 0..(MaxRejections + 1)}

InitPolar ==
    /\ gens = <<>>
    /\ X = 0 /\ Y = 0
    /\ ret = NoValue
    /\ status = "ready"
    /\ ncalls = 0
    /\ pre = gens
    /\ inv = NZero
    /\ inner = <<>>
    /\ polar = [pc |-> "polar", last |-> PolarInitialLast, draws |-> 0, drawn |-> 0,
                branch |-> "none", prevBranch |-> "none", prevLast |-> PolarInitialLast,
                s |-> DZero, pairs |-> 0]
    /\ hist = NoHist

PolarCall ==
    /\ ncalls < MaxPolarCalls
    /\ \E rs \in RandSequences : \E o \in {PolarGetNext(polar.last, rs)} :
              /\ o.done
              /\ o.used = Len(rs)
              /\ ret' = o.ret
              /\ polar' = [pc |-> "polar", last |-> o.last,
                           draws |-> polar.draws + o.used, drawn |-> o.used,
                           branch |-> o.branch, prevBranch |-> polar.branch,
                           prevLast |-> polar.last, s |-> o.s,
                           pairs |-> polar.pairs + (IF o.branch = "generated" THEN 1 ELSE 0)]
    /\ status' = "returned"
    /\ ncalls' = ncalls + 1
    /\ UNCHANGED <<gens, X, Y, pre, inv, inner, hist>>

NextPolar == PolarCall

SpecPolar == InitPolar /\ [][NextPolar]_vars

\* C6: calls strictly alternate: a call that generates a pair is always
\* followed by a call that returns the cached second value of that pair and
\* clears the pending marker without drawing, whatever the cached number is;
\* so 2k outputs never use more than k accepted pairs
ClaimC6_StrictAlternation ==
    /\ (Called /\ polar.prevBranch = "generated") =>
          /\ polar.branch = "cached"
          /\ ret = polar.prevLast
          /\ polar.last = PolarInitialLast
          /\ polar.drawn = 0
    /\ (Called /\ polar.prevBranch # "generated") => polar.branch = "generated"
    /\ 2 * polar.pairs <= ncalls + 1

\* C10: the rejection loop exits, and the transform factor is computed, only
\* with 0 < s < 1
ClaimC10_AcceptedPairInOpenUnitDisc ==
    (Called /\ polar.branch = "generated") =>
        DLess(DZero, polar.s) /\ DLess(polar.s, DOne)

(***************************************************************************)
(* SpecHist: histogram called on sample sequences, with the two ranges     *)
(* main uses (lines 249 and 251)                                           *)
(***************************************************************************)
MaxSamples == 2
MaxIntervals == 3

\* halves: -3, -1/2, 0, 1/2, 1, 3/2, 3
SampleValues == {DDiv(DFromInt(h), DFromInt(2)) : h \in {-6, -1, 0, 1, 2, 3, 6}}

SampleSequences == UNION {SeqsOfLen(SampleValues, n) : n \in 0..MaxSamples}

Ranges == {<<DFromInt(0), DFromInt(1)>>, <<DFromInt(-3), DFromInt(3)>>}

InitHist ==
    /\ gens = <<>>
    /\ X = 0 /\ Y = 0
    /\ ret = NoValue
    /\ status = "ready"
    /\ ncalls = 0
    /\ pre = gens
    /\ inv = NZero
    /\ inner = <<>>
    /\ polar = NoPolar
    /\ \E randomValues \in SampleSequences, range \in Ranges, numIntervals \in 1..MaxIntervals :
          hist = [pc |-> "ready", randomValues |-> randomValues, minRange |-> range[1],
                  maxRange |-> range[2], numIntervals |-> numIntervals]

HistogramCall ==
    /\ hist.pc = "ready"
    /\ hist' \in Histogram(hist.randomValues, hist.minRange, hist.maxRange, hist.numIntervals)
    /\ UNCHANGED <<gens, X, Y, ret, status, ncalls, pre, inv, inner, polar>>

NextHist == HistogramCall

SpecHist == InitHist /\ [][NextHist]_vars

HistCalled == hist.pc \in {"done", "trap"}

InRange(h, k) ==
    DLeq(h.minRange, h.randomValues[k]) /\ DLeq(h.randomValues[k], h.maxRange)

InRangeCount(h) == Cardinality({k \in 1..Len(h.randomValues) : InRange(h, k)})

RECURSIVE SumCounts(_, _)
SumCounts(f, b) == IF b = 0 THEN 0 ELSE f[b] + SumCounts(f, b - 1)

\* the sum of the reported frequencies, as the real number it is
DAddExact(a, b) ==
    LET e == IF a.exp < b.exp THEN a.exp ELSE b.exp
    IN  DNorm(FALSE, NAdd(NShl(a.man, a.exp - e), NShl(b.man, b.exp - e)), e)

RECURSIVE SumFrequencies(_, _)
SumFrequencies(rows, b) ==
    IF b = 0 THEN DZero ELSE DAddExact(rows[b].frequency, SumFrequencies(rows, b - 1))

\* C7: for a sample in [minRange, maxRange], histogram increments a bin whose
\* index lies in 0..numIntervals-1 and never touches frequencyIntervals outside
\* that range; a sample equal to maxRange increments the last bin
ClaimC7_BinIndexInRange ==
    HistCalled =>
        /\ hist.pc = "done"
        /\ hist.oob = <<>>
        /\ \A k \in 1..Len(hist.randomValues) :
              InRange(hist, k) =>
                 /\ hist.index[k] \in 0..(hist.numIntervals - 1)
                 /\ hist.randomValues[k] = hist.maxRange =>
                       hist.index[k] = hist.numIntervals - 1

\* C8: for a non-empty sample sequence, a sample outside the range changes no
\* bin count, the bin counts sum to the number of samples inside the range,
\* each reported frequency is its bin count over the number of all samples,
\* and the frequencies sum to 1 exactly when every sample is in range and to
\* less than 1 as soon as one is not
ClaimC8_CountsAndFrequencies ==
    (HistCalled /\ Len(hist.randomValues) > 0) =>
        /\ hist.pc = "done"
        /\ \A k \in 1..Len(hist.randomValues) : ~InRange(hist, k) => hist.index[k] = -1
        /\ SumCounts(hist.frequencyIntervals, hist.numIntervals) = InRangeCount(hist)
        /\ \A b \in 1..hist.numIntervals :
              hist.rows[b].frequency =
                 DDiv(DFromInt(hist.frequencyIntervals[b]), DFromInt(Len(hist.randomValues)))
        /\ (SumFrequencies(hist.rows, hist.numIntervals) = DOne)
              <=> (InRangeCount(hist) = Len(hist.randomValues))
        /\ (InRangeCount(hist) < Len(hist.randomValues)) =>
              DLess(SumFrequencies(hist.rows, hist.numIntervals), DOne)

====
